---- MODULE Spec2Model ----
(***************************************************************************)
(* Model of soundcloud_telegram_bot.py: the /check handler, which loads    *)
(* the persisted playlist state, fetches the playlist page, diffs the two, *)
(* saves the new state and replies with one message per new track.         *)
(*                                                                         *)
(* Track titles are the integers 1..NumTitles.  The content of a           *)
(* <meta itemprop="name"> tag of the page is a title, or a title with      *)
(* surrounding white space (Padded), or EmptyContent (a content that is    *)
(* empty after strip()), or PlaylistContent (a content whose lower-cased   *)
(* text contains "playlist").                                              *)
(***************************************************************************)
EXTENDS Integers, Sequences, FiniteSets, TLC

\* ---------------------------------------------------------------- bounds
NumTitles == 3
MaxRaw == 3
NumUpdates == 3

\* ------------------------------------------------------- page contents
EmptyContent == 0
PlaylistContent == -1

Titles == 1..NumTitles

\* The title t with white space around it.
Padded(t) == -(t + 1)

RawValues ==
    Titles \cup {Padded(t) : t \in Titles}
        \cup {EmptyContent, PlaylistContent}

\* Line 43: strip() removes the surrounding white space.
Strip(c) == IF c < PlaylistContent THEN -c - 1 ELSE c

Range(s) == {s[k] : k \in DOMAIN s}

SeqsUpTo(S, n) == UNION {[1..m -> S] : m \in 0..n}

\* The pages requests.get can return: the sequence of the contents of the
\* page's <meta itemprop="name"> tags, in page order.
RawPages == SeqsUpTo(RawValues, MaxRaw)

\* Lines 41-46: strip each content, and keep the ones that are then
\* non-empty and do not contain "playlist".
RECURSIVE FilterTitles(_)
FilterTitles(raw) ==
    IF raw = <<>> THEN <<>>
    ELSE LET title == Strip(Head(raw))
         IN IF title # EmptyContent /\ title # PlaylistContent
            THEN <<title>> \o FilterTitles(Tail(raw))
            ELSE FilterTitles(Tail(raw))

\* Lines 49-54: remove duplicates keeping the first occurrence.
RECURSIVE UniqueFrom(_, _, _)
UniqueFrom(tracks, seen, unique_tracks) ==
    IF tracks = <<>> THEN unique_tracks
    ELSE IF Head(tracks) \notin seen
         THEN UniqueFrom(Tail(tracks), seen \cup {Head(tracks)},
                         Append(unique_tracks, Head(tracks)))
         ELSE UniqueFrom(Tail(tracks), seen, unique_tracks)

\* A faulty variant of unique_tracks: the "seen" test is dropped.
unique_tracks_keepdups(tracks) == tracks

unique_tracks(tracks) == UniqueFrom(tracks, {}, <<>>)

\* fetch_playlist_tracks on a page whose request succeeded.
fetch_playlist_tracks(raw) == unique_tracks(FilterTitles(raw))

\* ------------------------------------------------------ persisted state
\* The content of STATE_FILE.  kind is
\*   "absent"    the file does not exist
\*   "invalid"   not parseable as JSON (empty, truncated, garbage)
\*   "nonobject" well-formed JSON whose top level is not an object
\*   "nokey"     a JSON object without the key "tracks"
\*   "scalar"    a JSON object whose "tracks" is a non-zero number
\*   "tracks"    a JSON object whose "tracks" is the list `tracks`
FileOf(kind, tracks) == [kind |-> kind, tracks |-> tracks]

Absent == FileOf("absent", <<>>)
Invalid == FileOf("invalid", <<>>)
NonObject == FileOf("nonobject", <<>>)
NoKey == FileOf("nokey", <<>>)
ScalarTracks == FileOf("scalar", <<>>)

\* The lists fetch_playlist_tracks can return, which are the lists the
\* program writes.
TrackLists == {fetch_playlist_tracks(raw) : raw \in RawPages}

Files == {Absent, Invalid, NonObject, NoKey, ScalarTracks}
            \cup {FileOf("tracks", l) : l \in TrackLists}

\* A value returned by load_previous_state: a list, or a number.
ListValue(l) == [isList |-> TRUE, list |-> l]
NumberValue == [isList |-> FALSE, list |-> <<>>]
NoValue == ListValue(<<>>)

\* Lines 59-67.  An absent file gives []; json.load raises JSONDecodeError
\* on invalid JSON, which is caught and gives []; on a top level that is no
\* object, data.get raises AttributeError, which is not caught; a missing
\* key gives the default []; otherwise the value of "tracks" is returned
\* as it is.
load_previous_state(f) ==
    CASE f.kind = "absent" -> [raises |-> FALSE, value |-> NoValue]
      [] f.kind = "invalid" -> [raises |-> FALSE, value |-> NoValue]
      [] f.kind = "nonobject" -> [raises |-> TRUE, value |-> NoValue]
      [] f.kind = "nokey" -> [raises |-> FALSE, value |-> NoValue]
      [] f.kind = "scalar" -> [raises |-> FALSE, value |-> NumberValue]
      [] OTHER -> [raises |-> FALSE, value |-> ListValue(f.tracks)]

\* Line 71: open(STATE_FILE, "w") truncates the file to zero bytes, which
\* is not parseable as JSON.
Truncated == Invalid

\* A faulty variant of save_state: the last track is not written.
SavedFile_short(tracks) ==
    FileOf("tracks", SubSeq(tracks, 1, Len(tracks) - 1))

\* Line 72: the file after json.dump({"tracks": tracks}) has completed.
SavedFile(tracks) == FileOf("tracks", tracks)

\* ----------------------------------------------------------------- diff
\* A faulty variant of new_tracks: membership is tested against the previous
\* list's first element only.
new_tracks_of_first(previous_tracks, current_tracks) ==
    SelectSeq(current_tracks, LAMBDA t : t # Head(previous_tracks))

\* Line 91: [t for t in current_tracks if t not in previous_tracks], for
\* a list previous_tracks.
RECURSIVE new_tracks_of(_, _)
new_tracks_of(previous_tracks, current_tracks) ==
    IF current_tracks = <<>> THEN <<>>
    ELSE IF \E k \in 1..Len(previous_tracks) :
                previous_tracks[k] = Head(current_tracks)
         THEN new_tracks_of(previous_tracks, Tail(current_tracks))
         ELSE <<Head(current_tracks)>>
                 \o new_tracks_of(previous_tracks, Tail(current_tracks))

\* Line 86: "not previous_tracks" is true of the empty list and false of a
\* non-empty list and of a non-zero number.
Falsy(v) == v.isList /\ v.list = <<>>

\* A faulty variant of check_plan: the first-run case is missing.
check_plan_nofirst(previous, current) ==
    IF ~previous.isList
    THEN [raises |-> current # <<>>, first |-> FALSE, new |-> <<>>,
          save |-> FALSE]
    ELSE [raises |-> FALSE, first |-> FALSE,
          new |-> new_tracks_of(previous.list, current),
          save |-> new_tracks_of(previous.list, current) # <<>>]

\* A faulty variant of check_plan: the state is saved in every cycle.
check_plan_always_save(previous, current) ==
    IF Falsy(previous)
    THEN [raises |-> FALSE, first |-> TRUE, new |-> <<>>, save |-> TRUE]
    ELSE IF ~previous.isList
    THEN [raises |-> current # <<>>, first |-> FALSE, new |-> <<>>,
          save |-> FALSE]
    ELSE [raises |-> FALSE, first |-> FALSE,
          new |-> new_tracks_of(previous.list, current),
          save |-> TRUE]

\* Lines 86-97: what check_playlist_once does after the load and the
\* fetch.  first: the first-run branch (lines 86-89) is taken; new: the
\* returned new_tracks; save: save_state(current_tracks) is called;
\* raises: line 91 raises TypeError ("t not in <number>") on its first
\* iteration.
check_plan(previous, current) ==
    IF Falsy(previous)
    THEN [raises |-> FALSE, first |-> TRUE, new |-> <<>>, save |-> TRUE]
    ELSE IF ~previous.isList
    THEN [raises |-> current # <<>>, first |-> FALSE, new |-> <<>>,
          save |-> FALSE]
    ELSE [raises |-> FALSE, first |-> FALSE,
          new |-> new_tracks_of(previous.list, current),
          save |-> new_tracks_of(previous.list, current) # <<>>]

\* Lines 33-34: the request.  "ok": a 2xx response with the page `raw`;
\* "http_error": a response with an error status, whose body has no track
\* tags, on which raise_for_status raises; "conn_error": requests.get
\* itself raises.
Requests ==
    {[result |-> "ok", raw |-> r] : r \in RawPages}
        \cup {[result |-> "http_error", raw |-> <<>>],
              [result |-> "conn_error", raw |-> <<>>]}

\* A faulty variant of fetch_result: raise_for_status is not called.
fetch_result_nostatus(req) ==
    IF req.result = "conn_error"
    THEN [raises |-> TRUE, tracks |-> <<>>]
    ELSE [raises |-> FALSE, tracks |-> fetch_playlist_tracks(req.raw)]

\* Lines 33-56: fetch_playlist_tracks as a whole.
fetch_result(req) ==
    IF req.result # "ok"
    THEN [raises |-> TRUE, tracks |-> <<>>]
    ELSE [raises |-> FALSE, tracks |-> fetch_playlist_tracks(req.raw)]

\* What a request can come to: how it ended, and what fetch_playlist_tracks
\* did with it.
FetchOutcomes ==
    {[result |-> req.result, r |-> fetch_result(req)] : req \in Requests}

\* Lines 123-140: where check goes once check_playlist_once has returned.
AfterCheck(cur, new) ==
    IF cur = <<>> THEN "reply_empty"
    ELSE IF new # <<>> THEN "send"
    ELSE "reply_none"

\* ---------------------------------------------------------------- state
VARIABLES
    file,        \* the content of STATE_FILE
    pc,          \* where the handler `check` is; "idle": no handler runs
    previous,    \* previous_tracks, the value load_previous_state returned
    current,     \* current_tracks
    new_tracks,  \* the new_tracks check_playlist_once returns
    first,       \* the cycle took the first-run branch (lines 86-89)
    returned,    \* check_playlist_once has returned (line 89 or 97)
    loaded,      \* "no", "ok", "raised": the cycle's load_previous_state
    fetched,     \* "no", "ok", "fail": the cycle's request
    saved,       \* "no", "open", "ok", "fail": the cycle's save_state
    attempts,    \* the titles whose new-track message the cycle tried to send
    notes,       \* the titles whose new-track message the cycle delivered
    outcome,     \* how the latest cycle ended, "running" while it runs
    file0,       \* the content of STATE_FILE when the cycle started
    lastOk,      \* check_playlist_once returned in the cycle before this one
    same,        \* lastOk, and this cycle fetched the list that one fetched
    everFetched, \* since the process started, check_playlist_once of an
                 \* earlier cycle has fetched a list and returned
    page,        \* fetch_playlist_tracks alone: the page it is given
    page_tracks, \* fetch_playlist_tracks alone: its list `tracks` (line 46)
    fetch_return, \* fetch_playlist_tracks alone: the list it returns
    fpc,         \* fetch_playlist_tracks alone: "off", "scan", "dedup",
                 \* "done"
    watch,       \* the record `told` is kept
    handler,     \* the dispatch alone: where the handler of each /check is
    queue,       \* the dispatch alone: the /check updates not yet handled
    told         \* the titles for which a new-track reply was attempted in
                 \* a cycle before this one, and which every list fetched
                 \* since has had

\* The variables of the handler.
handlerVars == <<file, pc, previous, current, new_tracks, first, returned,
                 loaded, fetched, saved, attempts, notes, outcome, file0,
                 lastOk, same, everFetched, told>>

\* The variables of fetch_playlist_tracks run alone.
fetchVars == <<page, page_tracks, fetch_return, fpc>>

\* The variables of the dispatch of the updates alone.
dispatchVars == <<handler, queue>>

vars == <<handlerVars, fetchVars, watch, dispatchVars>>

\* The other views of the program, which stand still while the handler
\* runs.
auxVars == <<fetchVars, watch, dispatchVars>>

cycleVars == <<previous, current, new_tracks, first, returned, loaded,
               fetched, saved, attempts, notes, file0, same>>

histVars == <<lastOk, everFetched>>

Init ==
    /\ file \in Files
    /\ pc = "idle"
    /\ previous = NoValue
    /\ current = <<>>
    /\ new_tracks = <<>>
    /\ first = FALSE
    /\ returned = FALSE
    /\ loaded = "no"
    /\ fetched = "no"
    /\ saved = "no"
    /\ attempts = <<>>
    /\ notes = <<>>
    /\ outcome = "none"
    /\ file0 = file
    /\ lastOk = FALSE
    /\ same = FALSE
    /\ everFetched = FALSE
    /\ page = <<>>
    /\ page_tracks = <<>>
    /\ fetch_return = <<>>
    /\ fpc = "off"
    /\ watch = FALSE
    /\ told = {}
    /\ handler = <<>>
    /\ queue = <<>>

\* Lines 110-112: a /check command is dispatched to the handler.  current
\* keeps the list of the cycle before until the fetch, for `same`.
StartCheck ==
    /\ UNCHANGED auxVars
    /\ pc = "idle"
    /\ pc' = "ack"
    /\ previous' = NoValue
    /\ new_tracks' = <<>>
    /\ first' = FALSE
    /\ returned' = FALSE
    /\ loaded' = "no"
    /\ fetched' = "no"
    /\ saved' = "no"
    /\ attempts' = <<>>
    /\ notes' = <<>>
    /\ outcome' = "running"
    /\ file0' = file
    /\ lastOk' = returned
    /\ same' = FALSE
    /\ everFetched' = (everFetched \/ (returned /\ outcome # "crashed"))
    /\ told' = IF watch THEN told \cup Range(attempts) ELSE told
    /\ UNCHANGED <<file, current>>

\* A faulty variant of AfterException: an exception that leaves the handler
\* ends the process.
AfterException_stop == "stopped"

\* Where the handler is after an exception has left check: the Application
\* that main builds and runs (lines 155-167) logs it and waits for the next
\* update.
AfterException == "idle"

\* Line 114: the "checking" reply.  When it fails the exception leaves the
\* handler before check_playlist_once is called.
Ack ==
    /\ UNCHANGED auxVars
    /\ pc = "ack"
    /\ \/ pc' = "load" /\ UNCHANGED outcome
       \/ pc' = AfterException /\ outcome' = "ack_failed"
    /\ UNCHANGED <<told, file, cycleVars, histVars>>

\* Line 82.
LoadState ==
    /\ UNCHANGED auxVars
    /\ pc = "load"
    /\ LET r == load_previous_state(file)
       IN IF r.raises
          THEN /\ loaded' = "raised"
               /\ pc' = "error"
               /\ UNCHANGED previous
          ELSE /\ loaded' = "ok"
               /\ previous' = r.value
               /\ pc' = "fetch"
    /\ UNCHANGED <<told, file, current, new_tracks, first, returned, fetched,
                   saved, attempts, notes, outcome, file0, same, histVars>>

\* Lines 83-97 up to the call of save_state: the fetch, the first-run test
\* and the diff.
Fetch ==
    /\ UNCHANGED auxVars
    /\ pc = "fetch"
    /\ \E o \in FetchOutcomes :
          LET r == o.r
              plan == check_plan(previous, r.tracks)
          IN /\ fetched' = IF o.result = "ok" THEN "ok" ELSE "fail"
             /\ IF r.raises
                THEN /\ pc' = "error"
                     /\ current' = <<>>
                     /\ UNCHANGED <<new_tracks, first, returned, same, told>>
                ELSE /\ current' = r.tracks
                     /\ told' = IF watch THEN told \cap Range(r.tracks)
                                ELSE told
                     /\ same' = (lastOk /\ r.tracks = current)
                     /\ first' = plan.first
                     /\ IF plan.raises
                        THEN /\ pc' = "error"
                             /\ UNCHANGED <<new_tracks, returned>>
                        ELSE /\ new_tracks' = plan.new
                             /\ returned' = ~plan.save
                             /\ pc' = IF plan.save THEN "save_open"
                                      ELSE AfterCheck(r.tracks, plan.new)
    /\ UNCHANGED <<file, previous, loaded, saved, attempts, notes, outcome,
                   file0, histVars>>

\* Line 71: open(STATE_FILE, "w").  It truncates the file, or raises
\* OSError and leaves the file as it was.
SaveOpen ==
    /\ UNCHANGED auxVars
    /\ pc = "save_open"
    /\ \/ /\ file' = Truncated
          /\ saved' = "open"
          /\ pc' = "save_dump"
       \/ /\ saved' = "fail"
          /\ pc' = "error"
          /\ UNCHANGED file
    /\ UNCHANGED <<told, previous, current, new_tracks, first, returned, loaded,
                   fetched, attempts, notes, outcome, file0, same, histVars>>

\* Line 72 and the end of the with block: json.dump writes the record and
\* the file is closed; or a write raises OSError and the file keeps a
\* prefix of the record, which is not parseable.
SaveDump ==
    /\ UNCHANGED auxVars
    /\ pc = "save_dump"
    /\ \/ /\ file' = SavedFile(current)
          /\ saved' = "ok"
          /\ returned' = TRUE
          /\ pc' = AfterCheck(current, new_tracks)
       \/ /\ saved' = "fail"
          /\ pc' = "error"
          /\ UNCHANGED <<file, returned>>
    /\ UNCHANGED <<told, previous, current, new_tracks, first, loaded, fetched,
                   attempts, notes, outcome, file0, lastOk, same, everFetched>>

\* Lines 118-121: the exception of check_playlist_once is reported.
ReplyError ==
    /\ UNCHANGED auxVars
    /\ pc = "error"
    /\ pc' = "idle"
    /\ outcome' = "error"
    /\ UNCHANGED <<told, file, cycleVars, histVars>>

\* Lines 123-128: no tracks were found.
ReplyEmpty ==
    /\ UNCHANGED auxVars
    /\ pc = "reply_empty"
    /\ pc' = "idle"
    /\ outcome' = "empty"
    /\ UNCHANGED <<told, file, cycleVars, histVars>>

\* Lines 139-140: no new tracks.
ReplyNone ==
    /\ UNCHANGED auxVars
    /\ pc = "reply_none"
    /\ pc' = "idle"
    /\ outcome' = "nonew"
    /\ UNCHANGED <<told, file, cycleVars, histVars>>

\* Lines 132-138: one iteration of the loop, the reply for the next track
\* of new_tracks.  A reply that raises leaves the loop and the handler: the
\* loop has no try.
Send ==
    /\ UNCHANGED auxVars
    /\ pc = "send"
    /\ LET k == Len(attempts) + 1
           track == new_tracks[k]
       IN /\ attempts' = Append(attempts, track)
          /\ \/ /\ notes' = Append(notes, track)
                /\ IF k = Len(new_tracks)
                   THEN pc' = "idle" /\ outcome' = "notified"
                   ELSE pc' = "send" /\ UNCHANGED outcome
             \/ /\ pc' = AfterException
                /\ outcome' = "send_failed"
                /\ UNCHANGED notes
    /\ UNCHANGED <<told, file, previous, current, new_tracks, first, returned,
                   loaded, fetched, saved, file0, same, histVars>>

\* The process dies while a handler runs and is started again: the
\* handler's progress is lost, the file stays as it is.
Crash ==
    /\ UNCHANGED auxVars
    /\ pc # "idle"
    /\ pc' = "idle"
    /\ outcome' = "crashed"
    /\ everFetched' = FALSE
    /\ UNCHANGED <<told, file, cycleVars, lastOk>>

Next ==
    \/ StartCheck
    \/ Ack
    \/ LoadState
    \/ Fetch
    \/ SaveOpen
    \/ SaveDump
    \/ ReplyError
    \/ ReplyEmpty
    \/ ReplyNone
    \/ Send
    \/ Crash

Spec == Init /\ [][Next]_vars

\* The steps of a started handler.  Each of them is a call that returns or
\* raises: a reply of the Bot API, a file operation, the HTTP request.
HandlerStep ==
    \/ Ack
    \/ LoadState
    \/ Fetch
    \/ SaveOpen
    \/ SaveDump
    \/ ReplyError
    \/ ReplyEmpty
    \/ ReplyNone
    \/ Send

\* The handler that has started is run on: the event loop of run_polling
\* (line 167) resumes it after each call, and requests.get (line 33)
\* returns or raises.  Nothing forces a /check to be sent, nor the process
\* to die.
SpecLive == Init /\ [][Next]_vars /\ WF_vars(HandlerStep)

\* -------------------------------------------------- the record of `told`
\* The handler with the record kept: the same steps from the same files.
InitTold ==
    /\ file \in Files
    /\ pc = "idle"
    /\ previous = NoValue
    /\ current = <<>>
    /\ new_tracks = <<>>
    /\ first = FALSE
    /\ returned = FALSE
    /\ loaded = "no"
    /\ fetched = "no"
    /\ saved = "no"
    /\ attempts = <<>>
    /\ notes = <<>>
    /\ outcome = "none"
    /\ file0 = file
    /\ lastOk = FALSE
    /\ same = FALSE
    /\ everFetched = FALSE
    /\ page = <<>>
    /\ page_tracks = <<>>
    /\ fetch_return = <<>>
    /\ fpc = "off"
    /\ watch = TRUE
    /\ told = {}
    /\ handler = <<>>
    /\ queue = <<>>

SpecTold == InitTold /\ [][Next]_vars

\* ---------------------------------------------------- the dispatch alone
\* Several /check commands and the handlers the Application starts for
\* them.  handler[u] is "unsent", "queued", "ack" (line 114, awaiting the
\* reply), "load", "fetch", "save" (inside check_playlist_once, line 117),
\* "reply" (lines 119-140, awaiting a reply) or "done".
Updates == 1..NumUpdates

InHandler == {"ack", "load", "fetch", "save", "reply"}

InOnce == {"load", "fetch", "save"}

InitDispatch ==
    /\ file = Absent
    /\ pc = "idle"
    /\ previous = NoValue
    /\ current = <<>>
    /\ new_tracks = <<>>
    /\ first = FALSE
    /\ returned = FALSE
    /\ loaded = "no"
    /\ fetched = "no"
    /\ saved = "no"
    /\ attempts = <<>>
    /\ notes = <<>>
    /\ outcome = "none"
    /\ file0 = Absent
    /\ lastOk = FALSE
    /\ same = FALSE
    /\ everFetched = FALSE
    /\ page = <<>>
    /\ page_tracks = <<>>
    /\ fetch_return = <<>>
    /\ fpc = "off"
    /\ watch = FALSE
    /\ told = {}
    /\ handler = [u \in Updates |-> "unsent"]
    /\ queue = <<>>

\* A faulty variant of DispatchAllowed: the updates are handled
\* concurrently.
DispatchAllowed_concurrent == TRUE

\* Lines 155-159 and 163: the Application is built without
\* concurrent_updates and the handler is registered as a blocking one, so
\* the next update is taken only when no handler is running.
DispatchAllowed == \A v \in Updates : handler[v] \notin InHandler

\* Lines 75-97 and 117: check_playlist_once is a plain function with no
\* await, called from the coroutine: while one handler is inside it the
\* event loop runs no other.
CanRun(u) == \A v \in Updates \ {u} : handler[v] \notin InOnce

\* A user sends /check.
QueueUpdate ==
    /\ \E u \in Updates :
          /\ handler[u] = "unsent"
          /\ handler' = [handler EXCEPT ![u] = "queued"]
          /\ queue' = Append(queue, u)
    /\ UNCHANGED <<handlerVars, fetchVars, watch>>

\* Line 167: run_polling takes the next update and starts check for it.
ProcessUpdate ==
    /\ queue # <<>>
    /\ DispatchAllowed
    /\ handler' = [handler EXCEPT ![Head(queue)] = "ack"]
    /\ queue' = Tail(queue)
    /\ UNCHANGED <<handlerVars, fetchVars, watch>>

\* Line 114: the awaited reply returns, and line 117 is reached, or it
\* raises.
CheckAck ==
    /\ \E u \in Updates :
          /\ handler[u] = "ack"
          /\ CanRun(u)
          /\ \E to \in {"load", "done"} :
                handler' = [handler EXCEPT ![u] = to]
    /\ UNCHANGED <<handlerVars, fetchVars, watch, queue>>

\* Lines 82-97: the load, then the fetch, then, on the first run or with
\* new tracks, the save; an exception, or the return after the fetch or
\* the save, leaves check_playlist_once for the replies of check.
CheckOnce ==
    /\ \E u \in Updates :
          /\ handler[u] \in InOnce
          /\ CanRun(u)
          /\ \E to \in {"fetch", "save", "reply"} :
                /\ to = "fetch" => handler[u] = "load"
                /\ to = "save" => handler[u] = "fetch"
                /\ handler' = [handler EXCEPT ![u] = to]
    /\ UNCHANGED <<handlerVars, fetchVars, watch, queue>>

\* Lines 119-140: the awaited replies return or raise, and check ends.
CheckReply ==
    /\ \E u \in Updates :
          /\ handler[u] = "reply"
          /\ CanRun(u)
          /\ handler' = [handler EXCEPT ![u] = "done"]
    /\ UNCHANGED <<handlerVars, fetchVars, watch, queue>>

NextDispatch ==
    \/ QueueUpdate
    \/ ProcessUpdate
    \/ CheckAck
    \/ CheckOnce
    \/ CheckReply

SpecDispatch == InitDispatch /\ [][NextDispatch]_vars

\* ------------------------------------------- fetch_playlist_tracks alone
\* fetch_playlist_tracks applied to every page: the handler stands still.
InitFetch ==
    /\ file = Absent
    /\ pc = "idle"
    /\ previous = NoValue
    /\ current = <<>>
    /\ new_tracks = <<>>
    /\ first = FALSE
    /\ returned = FALSE
    /\ loaded = "no"
    /\ fetched = "no"
    /\ saved = "no"
    /\ attempts = <<>>
    /\ notes = <<>>
    /\ outcome = "none"
    /\ file0 = Absent
    /\ lastOk = FALSE
    /\ same = FALSE
    /\ everFetched = FALSE
    /\ page \in RawPages
    /\ page_tracks = <<>>
    /\ fetch_return = <<>>
    /\ fpc = "scan"
    /\ watch = FALSE
    /\ told = {}
    /\ handler = <<>>
    /\ queue = <<>>

\* Lines 38-46: the scan of the page's tags.
ScanPage ==
    /\ fpc = "scan"
    /\ page_tracks' = FilterTitles(page)
    /\ fpc' = "dedup"
    /\ UNCHANGED <<handlerVars, page, fetch_return, watch, dispatchVars>>

\* Lines 48-56: the removal of the duplicates, and the return.
DedupTracks ==
    /\ fpc = "dedup"
    /\ fetch_return' = unique_tracks(page_tracks)
    /\ fpc' = "done"
    /\ UNCHANGED <<handlerVars, page, page_tracks, watch, dispatchVars>>

NextFetch ==
    \/ ScanPage
    \/ DedupTracks

SpecFetch == InitFetch /\ [][NextFetch]_vars

\* ----------------------------------------------------------- properties
IsPrefix(a, b) == Len(a) <= Len(b) /\ a = SubSeq(b, 1, Len(a))

NoDuplicates(q) == \A j, k \in 1..Len(q) : q[j] = q[k] => j = k

TracksFile(l) == FileOf("tracks", l)

\* C1: a cycle whose load returned the empty list and whose fetch succeeded
\* with the list L attempts no new-track message, and when its
\* check_playlist_once has returned (the save has completed) the file holds
\* exactly L.
C1_Bootstrap ==
    (loaded = "ok" /\ Falsy(previous) /\ fetched = "ok") =>
        /\ attempts = <<>>
        /\ notes = <<>>
        /\ returned => file = TracksFile(current)

C1_Witness ==
    /\ pc = "idle"
    /\ outcome = "nonew"
    /\ file0 = Absent
    /\ Falsy(previous)
    /\ Len(current) >= 2
    /\ file = TracksFile(current)
    /\ attempts = <<>>

\* d is the sub-sequence of cur, in cur's order, of the elements that do
\* not occur in prev: the j-th element of d is the element of cur at the
\* j-th index whose element is not in prev.
IsSubSeqNotIn(d, prev, cur) ==
    LET idx == {k \in 1..Len(cur) : cur[k] \notin Range(prev)}
    IN /\ Len(d) = Cardinality(idx)
       /\ \A j \in 1..Len(d) :
             \E k \in idx : /\ d[j] = cur[k]
                            /\ Cardinality({m \in idx : m < k}) = j - 1

\* C2: in a cycle whose loaded previous list is non-empty and whose fetch
\* succeeded, new_tracks is exactly the sub-sequence of current, in
\* current's order, of the titles that occur nowhere in previous.
C2_Diff ==
    (loaded = "ok" /\ previous.isList /\ previous.list # <<>>
        /\ fetched = "ok") =>
        IsSubSeqNotIn(new_tracks, previous.list, current)

C2_Witness ==
    /\ fetched = "ok"
    /\ previous = ListValue(<<1>>)
    /\ current = <<2, 1, 3>>
    /\ new_tracks = <<2, 3>>

\* C3 as stated: a snapshot that has been written holds the fetched list
\* of the cycle that wrote it, as a whole; the cycles that write a
\* non-empty snapshot are the first cycle that fetches a list and the
\* cycles with a non-empty Delta, each of which writes when its
\* check_playlist_once returns; and a cycle that computes an empty Delta
\* does not write.  By induction over the cycles, a non-empty snapshot then
\* is the list of the most recent such cycle.
C3_Original ==
    LET qualifies == (first /\ ~everFetched) \/ new_tracks # <<>>
    IN /\ saved = "ok" => file = TracksFile(current)
       /\ (saved = "ok" /\ current # <<>>) => qualifies
       /\ (returned /\ qualifies) => saved = "ok"
       /\ (returned /\ ~first /\ new_tracks = <<>>) => saved = "no"

\* C3, amended: the file changes only inside save_state; the cycles that
\* call save_state are the cycles that take the first-run branch (their
\* loaded previous state is empty, which can happen again after the first
\* successful fetch) and the cycles with a non-empty Delta; each stores
\* its fetched list as a whole, and has done so when its
\* check_playlist_once returns; a cycle with a non-empty previous state
\* and an empty Delta does not write.  By induction over the cycles, a
\* snapshot that was written is the list of the most recent such cycle.
C3_Snapshot ==
    LET qualifies == first \/ new_tracks # <<>>
    IN /\ saved = "no" => file = file0
       /\ saved # "no" => qualifies
       /\ saved = "ok" => file = TracksFile(current)
       /\ (returned /\ qualifies) => saved = "ok"
       /\ (returned /\ ~qualifies) => (saved = "no" /\ file = file0)

C3_Witness ==
    /\ pc = "idle"
    /\ everFetched
    /\ first
    /\ saved = "ok"
    /\ current # <<>>
    /\ file = TracksFile(current)

\* C4: when a cycle with two or more new tracks ends because a send
\* failed, a send was still attempted for every new track, and the file
\* holds the full current list.
C4_PartialDelivery ==
    (pc = "idle" /\ outcome = "send_failed" /\ Len(new_tracks) >= 2) =>
        /\ attempts = new_tracks
        /\ file = TracksFile(current)

\* C5: in a cycle whose fetch fails no new-track message is attempted and
\* save_state is not called, so the file is the one the cycle started
\* with; the handler ends, and the next cycle starts from that same file
\* and loads its previous state from it.
C5_FetchFailure ==
    /\ [](fetched = "fail" =>
            /\ attempts = <<>>
            /\ notes = <<>>
            /\ saved = "no"
            /\ file = file0
            /\ pc \in {"error", "idle"}
            /\ pc = "idle" => ENABLED StartCheck)
    /\ [][(fetched = "fail" /\ pc = "idle" /\ pc' # "idle") =>
            (pc' = "ack" /\ file' = file0 /\ file0' = file0)]_vars
    /\ [](loaded = "ok" => previous = load_previous_state(file0).value)

C5_Witness ==
    /\ fetched = "fail"
    /\ pc = "idle"
    /\ outcome = "error"
    /\ file = TracksFile(<<1, 2>>)

\* C6: when check_playlist_once returned in the cycle before with the list
\* L and returns in this cycle with the same list L, this cycle attempts
\* no new-track message and the file is the one this cycle started with.
C6_Idempotence ==
    (same /\ returned) =>
        /\ attempts = <<>>
        /\ notes = <<>>
        /\ file = file0

C6_Witness ==
    /\ same
    /\ returned
    /\ pc = "idle"
    /\ outcome = "nonew"
    /\ Len(current) >= 2
    /\ file = TracksFile(current)

\* C7: in a cycle whose fetch succeeds with the empty list while the
\* loaded previous state is not empty, no new-track message is attempted
\* and the file is not written.
C7_EmptyFetch ==
    (loaded = "ok" /\ ~Falsy(previous) /\ fetched = "ok" /\ current = <<>>) =>
        /\ attempts = <<>>
        /\ notes = <<>>
        /\ saved = "no"
        /\ file = file0

C7_Witness ==
    /\ pc = "idle"
    /\ outcome = "empty"
    /\ fetched = "ok"
    /\ previous = ListValue(<<1, 2>>)
    /\ file = TracksFile(<<1, 2>>)

\* C8: the new-track messages of a cycle are attempted for the tracks of
\* new_tracks one by one in its order, no title twice; as long as no send
\* has failed each attempted one is delivered, and a cycle that ends with
\* no send failed has delivered exactly new_tracks.
C8_OnePerTrack ==
    /\ IsPrefix(attempts, new_tracks)
    /\ NoDuplicates(attempts)
    /\ outcome # "send_failed" => notes = attempts
    /\ (pc = "idle" /\ returned /\ outcome \notin {"send_failed", "crashed"})
          => notes = new_tracks

C8_Witness ==
    /\ pc = "idle"
    /\ outcome = "notified"
    /\ new_tracks = <<2, 3>>
    /\ notes = <<2, 3>>

\* C9: load_previous_state never raises; it returns the persisted list
\* when the file holds one, and the empty list for every other content.
C9_LoadNeverFails ==
    /\ loaded # "raised"
    /\ loaded = "ok" =>
          previous = IF file0.kind = "tracks" THEN ListValue(file0.tracks)
                     ELSE NoValue

\* C10: from the moment save_state is called, whatever happens next, a
\* load of the file gives the list the file held before or the list being
\* saved.
C10_AtomicSave ==
    saved # "no" =>
        /\ ~load_previous_state(file).raises
        /\ load_previous_state(file).value
              \in {load_previous_state(file0).value, ListValue(current)}

\* u is t without its duplicates: each distinct element of t once, at the
\* place of its first occurrence, the first occurrences in t's order.
IsFirstOccurrences(u, t) ==
    LET firsts == {k \in 1..Len(t) : \A m \in 1..(k - 1) : t[m] # t[k]}
    IN /\ Len(u) = Cardinality(firsts)
       /\ \A j \in 1..Len(u) :
             \E k \in firsts : /\ u[j] = t[k]
                               /\ Cardinality({m \in firsts : m < k}) = j - 1

\* C12: for every list of titles found on the page (the stripped contents
\* that are non-empty and do not contain "playlist"), the list
\* fetch_playlist_tracks returns holds each distinct title exactly once,
\* at the position of its first occurrence, in page order; it has no
\* duplicates.
C12_Dedup ==
    fpc = "done" =>
        /\ IsFirstOccurrences(fetch_return, page_tracks)
        /\ NoDuplicates(fetch_return)
        /\ Range(fetch_return) = Range(page_tracks)

C12_Witness ==
    /\ fpc = "done"
    /\ page = <<1, 1, 2>>
    /\ page_tracks = <<1, 1, 2>>
    /\ fetch_return = <<1, 2>>

\* C13: in a cycle with a non-empty Delta, save_state is not called before
\* a send has been attempted for every track of the Delta.
C13_NotifyThenPersist ==
    (new_tracks # <<>> /\ saved # "no") => attempts = new_tracks

\* C14: when the process has died in a cycle, every title that the cycle
\* found new and that the file records as known has had its new-track
\* message attempted.
C14_AtLeastOnce ==
    (pc = "idle" /\ outcome = "crashed" /\ file.kind = "tracks") =>
        \A t \in Range(new_tracks) :
            t \in Range(file.tracks) => t \in Range(attempts)

\* C15: when save_state has failed in a cycle with a non-empty Delta and
\* the handler has ended, the new-track messages of the Delta have been
\* attempted, and the file is the one the cycle started with.
C15_SaveFailure ==
    (pc = "idle" /\ outcome = "error" /\ saved = "fail"
        /\ new_tracks # <<>>) =>
        /\ attempts = new_tracks
        /\ file = file0

\* C18: once check_playlist_once has returned, every title of the fetched
\* list is in the file's list, which is the fetched list itself when the
\* cycle saved; a title of the loaded list is never a new track, and a
\* cycle with a non-empty loaded list and no new track leaves the file as
\* it was, so that a title that left the playlist and came back with no
\* other addition in between is still in the file and is not notified.
C18_SnapshotCoversFetch ==
    /\ returned =>
          /\ current # <<>> => file.kind = "tracks"
          /\ Range(current) \subseteq Range(file.tracks)
          /\ saved = "ok" => file = TracksFile(current)
          /\ saved = "no" => file = file0
    /\ (fetched = "ok" /\ previous.isList) =>
          Range(new_tracks) \cap Range(previous.list) = {}

C18_Witness ==
    /\ pc = "idle"
    /\ returned
    /\ lastOk
    /\ saved = "no"
    /\ file = TracksFile(<<1, 2>>)
    /\ current = <<2>>
    /\ outcome = "nonew"

C17_NotifiedOnce ==
    watch =>
        /\ Range(new_tracks) \cap told = {}
        /\ Range(attempts) \cap told = {}

C17_Witness ==
    /\ watch
    /\ told = {1}
    /\ pc = "idle"
    /\ file0 = Truncated
    /\ fetched = "ok"
    /\ 1 \in Range(current)
    /\ returned
    /\ attempts = <<>>

====
